---- MODULE Spec2Model ----
(***************************************************************************)
(* Register-based bytecode VM (src/src/vm.rs), its instruction set         *)
(* (src/src/instruction.rs) and the assembler's encoder                    *)
(* (src/src/assembly/mod.rs).                                              *)
(*                                                                         *)
(* Widths.  Registers are i32 and are kept at full width: every i32        *)
(* operation below is computed without leaving the 32-bit range.  A u32    *)
(* (rem) is a pair <<high 16 bits, low 16 bits>>.  pc is a usize of a      *)
(* 64-bit target; a pc of PcHuge stands for every value >= PcHuge, all of  *)
(* which lie past the end of any program buffer.                           *)
(*                                                                         *)
(* Builds.  Integer overflow of +, -, * on i32 and usize panics when the   *)
(* crate is built with overflow checks (the debug profile) and wraps when  *)
(* it is built without (the release profile); overflow_checks is the       *)
(* profile of the build that runs.  Indexing out of bounds, division by    *)
(* zero, i32::MIN / -1 and a Vec capacity overflow panic in every build.   *)
(***************************************************************************)
EXTENDS Integers, Sequences, FiniteSets, TLC

VARIABLES registers, pc, program, heap, rem, cmp,
          overflow_checks, status, last, prev, ran, source, executed,
          typed, text, parsed

vars == <<registers, pc, program, heap, rem, cmp,
          overflow_checks, status, last, prev, ran, source, executed,
          typed, text, parsed>>

REGISTER_COUNT == 32

\* Bounds of the model.
MaxInstr == 2
MaxTail == 1
MaxHeap == 12
MaxCalls == 10
MaxTyped == 5
MaxRounds == 3
MaxLines == 2

-----------------------------------------------------------------------------
(* i32, u16, u32 and usize arithmetic                                      *)

I32_MAX == 2147483647
I32_MIN == -I32_MAX - 1
PcHuge == I32_MAX

Pow16 == 65536

\* a + b overflows i32
AddOverflows(a, b) ==
    \/ a >= 0 /\ b >= 0 /\ a > I32_MAX - b
    \/ a < 0 /\ b < 0 /\ a < I32_MIN - b

\* a + b modulo 2^32, as i32
wrapping_add(a, b) ==
    IF a >= 0 /\ b >= 0 /\ a > I32_MAX - b
    THEN ((a - I32_MAX) - 1) + ((b - I32_MAX) - 1)
    ELSE IF a < 0 /\ b < 0 /\ a < I32_MIN - b
    THEN ((a + I32_MAX) + 1) + ((b + I32_MAX) + 1)
    ELSE a + b

\* a - b overflows i32
SubOverflows(a, b) ==
    \/ a >= 0 /\ b < 0 /\ a > I32_MAX + b
    \/ a < 0 /\ b >= 0 /\ a < I32_MIN + b

\* a - b modulo 2^32, as i32
wrapping_sub(a, b) ==
    IF a >= 0 /\ b < 0 /\ a > I32_MAX + b
    THEN ((a - I32_MAX) - 1) - ((b + I32_MAX) + 1)
    ELSE IF a < 0 /\ b >= 0 /\ a < I32_MIN + b
    THEN ((a + I32_MAX) + 1) - ((b - I32_MAX) - 1)
    ELSE a - b

\* a * b overflows i32
MulOverflows(a, b) ==
    IF a = 0 \/ b = 0 THEN FALSE
    ELSE IF a > 0 /\ b > 0 THEN a > I32_MAX \div b
    ELSE IF a < 0 /\ b < 0
         THEN a = I32_MIN \/ b = I32_MIN \/ (-a) > I32_MAX \div (-b)
    ELSE IF a > 0 THEN b < (I32_MIN + (a - 1)) \div a
    ELSE a < (I32_MIN + (b - 1)) \div b

\* the 32-bit product of two 16-bit values, as <<high half, low half>>
Mul16(x, y) ==
    LET p1 == (x \div 256) * y
        p0 == (x % 256) * y
        low == (p1 % 256) * 256 + p0
    IN  <<(p1 \div 256) + (low \div Pow16), low % Pow16>>

\* the two's complement halves of an i32
HighHalf(a) == (a \div Pow16) % Pow16
LowHalf(a) == a % Pow16

\* the i32 with the given halves
FromHalves(hi, lo) ==
    IF hi >= 32768 THEN (hi - Pow16) * Pow16 + lo ELSE hi * Pow16 + lo

\* a * b modulo 2^32, as i32
wrapping_mul(a, b) ==
    LET ll == Mul16(LowHalf(a), LowHalf(b))
        hl == Mul16(HighHalf(a), LowHalf(b))
        lh == Mul16(LowHalf(a), HighHalf(b))
    IN  FromHalves((ll[1] + hl[2] + lh[2]) % Pow16, ll[2])

\* a / b on i32 for a divisor b > 0: the quotient truncated toward zero
TruncDivPos(a, b) ==
    IF a < 0 /\ a % b # 0 THEN (a \div b) + 1 ELSE a \div b

\* a / b on i32 (truncated toward zero), for b # 0 and not (a = I32_MIN, b = -1)
TruncDiv(a, b) ==
    IF b > 0 THEN TruncDivPos(a, b)
    ELSE IF b = I32_MIN THEN (IF a = I32_MIN THEN 1 ELSE 0)
    ELSE -TruncDivPos(a, -b)

\* a % b on i32: the remainder takes the sign of the dividend
TruncRem(a, b) == a - TruncDiv(a, b) * b

\* x as u32 for an i32 x, as <<high 16 bits, low 16 bits>>
AsU32(x) == <<HighHalf(x), LowHalf(x)>>

\* x as i32 for a u16 x: the value is zero-extended
U16AsI32(x) == x

\* b as u32 for a bool b
BoolAsU32(b) == IF b THEN 1 ELSE 0

-----------------------------------------------------------------------------
(* Instruction set: src/src/instruction.rs                                 *)

Bytes == 0..255

Opcodes == {"Hlt", "Load", "Add", "Sub", "Mul", "Div", "Jmp", "Jmpf", "Jmpb",
            "Eq", "Neq", "Gt", "Lt", "Gtq", "Ltq", "Jeq", "Alloc", "Inc", "Dec"}

\* impl From<u8> for Opcode
OpcodeFromU8(v) ==
    CASE v = 0 -> "Hlt"
      [] v = 1 -> "Load"
      [] v = 2 -> "Add"
      [] v = 3 -> "Sub"
      [] v = 4 -> "Mul"
      [] v = 5 -> "Div"
      [] v = 6 -> "Jmp"
      [] v = 7 -> "Jmpf"
      [] v = 8 -> "Jmpb"
      [] v = 9 -> "Eq"
      [] v = 10 -> "Neq"
      [] v = 11 -> "Gt"
      [] v = 12 -> "Lt"
      [] v = 13 -> "Gtq"
      [] v = 14 -> "Ltq"
      [] v = 15 -> "Jeq"
      [] v = 17 -> "Alloc"
      [] v = 18 -> "Inc"
      [] v = 19 -> "Dec"
      [] OTHER -> "Igl"

\* impl From<Opcode> for u8 (unreachable!() for Igl)
U8FromOpcode(op) ==
    CASE op = "Hlt" -> 0
      [] op = "Load" -> 1
      [] op = "Add" -> 2
      [] op = "Sub" -> 3
      [] op = "Mul" -> 4
      [] op = "Div" -> 5
      [] op = "Jmp" -> 6
      [] op = "Jmpf" -> 7
      [] op = "Jmpb" -> 8
      [] op = "Eq" -> 9
      [] op = "Neq" -> 10
      [] op = "Gt" -> 11
      [] op = "Lt" -> 12
      [] op = "Gtq" -> 13
      [] op = "Ltq" -> 14
      [] op = "Jeq" -> 15
      [] op = "Alloc" -> 17
      [] op = "Inc" -> 18
      [] op = "Dec" -> 19

\* Opcode::size (unreachable!() for Igl)
size(op) ==
    CASE op = "Hlt" -> 1
      [] op \in {"Load", "Add", "Sub", "Mul", "Div"} -> 4
      [] op \in {"Jmp", "Jmpf", "Jmpb"} -> 2
      [] op \in {"Eq", "Neq", "Gt", "Lt", "Gtq", "Ltq"} -> 3
      [] op \in {"Jeq", "Alloc", "Inc", "Dec"} -> 2

\* Opcode::operands (unreachable!() for Igl)
operands(op) ==
    CASE op = "Hlt" -> <<>>
      [] op = "Load" -> <<"Register", "Number">>
      [] op \in {"Add", "Sub", "Mul", "Div"} -> <<"Register", "Register", "Register">>
      [] op \in {"Eq", "Neq", "Gt", "Lt", "Gtq", "Ltq"} -> <<"Register", "Register">>
      [] op \in {"Jmp", "Jmpf", "Jmpb", "Jeq", "Alloc", "Inc", "Dec"} -> <<"Register">>

-----------------------------------------------------------------------------
(* Assembler encoder: src/src/assembly/mod.rs                              *)

\* num as u16 for an i32 num
I32AsU16(num) == num % Pow16

\* TokenBytes with the two bytes of a number pushed low byte first
TokenBytesLowFirst(tok) ==
    IF tok.kind = "Register"
    THEN <<tok.reg>>
    ELSE LET converted == I32AsU16(tok.num)
         IN  <<converted % 256, (converted \div 256) % 256>>

\* the bytes Instruction::to_bytes pushes for one operand token
TokenBytes(tok) ==
    IF tok.kind = "Register"
    THEN <<tok.reg>>
    ELSE LET converted == I32AsU16(tok.num)
             byte1 == converted
             byte2 == converted \div 256
         IN  <<byte2 % 256, byte1 % 256>>

RECURSIVE OperandBytes(_)
OperandBytes(toks) ==
    IF toks = <<>> THEN <<>>
    ELSE TokenBytes(Head(toks)) \o OperandBytes(Tail(toks))

\* Instruction::to_bytes
to_bytes(instr) == <<U8FromOpcode(instr.opcode)>> \o OperandBytes(instr.operands)

\* Program::to_bytes
RECURSIVE program_to_bytes(_)
program_to_bytes(instrs) ==
    IF instrs = <<>> THEN <<>>
    ELSE to_bytes(Head(instrs)) \o program_to_bytes(Tail(instrs))

-----------------------------------------------------------------------------
(* Assembler parser: src/src/assembly/mod.rs.  A text is a sequence of      *)
(* characters, each a string of length 1.                                   *)

Digits == <<"0", "1", "2", "3", "4", "5", "6", "7", "8", "9">>

DigitChars == {Digits[i] : i \in 1..10}

DigitValue(c) == CHOOSE d \in 0..9 : Digits[d + 1] = c

LetterChars ==
    {"A", "B", "C", "D", "E", "F", "G", "H", "I", "J", "K", "L", "M", "N", "O", "P", "Q", "R", "S", "T", "U", "V", "W", "X", "Y", "Z"}
    \cup {"a", "b", "c", "d", "e", "f", "g", "h", "i", "j", "k", "l", "m", "n", "o", "p", "q", "r", "s", "t", "u", "v", "w", "x", "y", "z"}

\* the characters alphanumeric1 takes
AlphanumericChars == DigitChars \cup LetterChars

\* the characters space1 takes, and those multispace0 takes
SpaceChars == {" ", "\t"}
MultispaceChars == {" ", "\t", "\r", "\n"}

Drop(input, n) == SubSeq(input, n + 1, Len(input))

\* the length of the longest prefix of input made of characters of set
RECURSIVE PrefixLen(_, _)
PrefixLen(input, set) ==
    IF input = <<>> \/ Head(input) \notin set THEN 0
    ELSE 1 + PrefixLen(Tail(input), set)

\* nom's tag(t)
tag(t, input) ==
    IF Len(input) >= Len(t) /\ SubSeq(input, 1, Len(t)) = t
    THEN [ok |-> TRUE, rest |-> Drop(input, Len(t))]
    ELSE [ok |-> FALSE, rest |-> input]

\* the alternatives of parse_opcode, in the order alt tries them
OpcodeTags ==
    <<<<"Hlt", <<"H", "L", "T">>>>,
      <<"Load", <<"L", "O", "A", "D">>>>,
      <<"Add", <<"A", "D", "D">>>>,
      <<"Sub", <<"S", "U", "B">>>>,
      <<"Mul", <<"M", "U", "L">>>>,
      <<"Div", <<"D", "I", "V">>>>,
      <<"Jmp", <<"J", "M", "P">>>>,
      <<"Jmpf", <<"J", "M", "P", "F">>>>,
      <<"Jmpb", <<"J", "M", "P", "B">>>>,
      <<"Eq", <<"E", "Q">>>>,
      <<"Neq", <<"N", "E", "Q">>>>,
      <<"Gt", <<"G", "T">>>>,
      <<"Lt", <<"L", "T">>>>,
      <<"Gtq", <<"G", "T", "Q">>>>,
      <<"Ltq", <<"L", "T", "Q">>>>,
      <<"Jeq", <<"J", "E", "Q">>>>,
      <<"Jneq", <<"J", "N", "E", "Q">>>>>>

\* parse_opcode: the first alternative whose tag is a prefix of the input
parse_opcode(input) ==
    LET hits == {i \in 1..Len(OpcodeTags) : tag(OpcodeTags[i][2], input).ok}
    IN  IF hits = {}
        THEN [ok |-> FALSE, opcode |-> "Igl", rest |-> input]
        ELSE LET first == CHOOSE i \in hits : \A j \in hits : i <= j
             IN  [ok |-> TRUE, opcode |-> OpcodeTags[first][1],
                  rest |-> tag(OpcodeTags[first][2], input).rest]

\* the value of a run of decimal digits, -1 when it exceeds limit
RECURSIVE DecimalValue(_, _, _)
DecimalValue(digits, acc, limit) ==
    IF digits = <<>> THEN acc
    ELSE LET d == DigitValue(Head(digits))
         IN  IF acc > (limit - d) \div 10 THEN -1
             ELSE DecimalValue(Tail(digits), acc * 10 + d, limit)

NoToken == [kind |-> "None", reg |-> 0, num |-> 0]

\* parse_register: "$" then nom's u8
parse_register(input) ==
    LET t == tag(<<"$">>, input)
        n == PrefixLen(t.rest, DigitChars)
        v == DecimalValue(SubSeq(t.rest, 1, n), 0, 255)
    IN  IF t.ok /\ n > 0 /\ v >= 0
        THEN [ok |-> TRUE, token |-> [kind |-> "Register", reg |-> v, num |-> 0],
              rest |-> Drop(t.rest, n)]
        ELSE [ok |-> FALSE, token |-> NoToken, rest |-> input]

\* parse_number: alphanumeric1, then str::parse::<i32> of what it took
parse_number(input) ==
    LET n == PrefixLen(input, AlphanumericChars)
        word == SubSeq(input, 1, n)
        v == DecimalValue(word, 0, I32_MAX)
    IN  IF n > 0 /\ (\A i \in 1..n : word[i] \in DigitChars) /\ v >= 0
        THEN [ok |-> TRUE, token |-> [kind |-> "Number", reg |-> 0, num |-> v],
              rest |-> Drop(input, n)]
        ELSE [ok |-> FALSE, token |-> NoToken, rest |-> input]

\* the loop of parse_instruction over the operand kinds of the opcode
RECURSIVE ParseOperands(_, _, _)
ParseOperands(kinds, input, acc) ==
    IF kinds = <<>> THEN [ok |-> TRUE, operands |-> acc, rest |-> input]
    ELSE LET rem_local == Drop(input, PrefixLen(input, MultispaceChars))
             operand == IF Head(kinds) = "Register" THEN parse_register(rem_local)
                        ELSE parse_number(rem_local)
         IN  IF ~operand.ok THEN [ok |-> FALSE, operands |-> acc, rest |-> input]
             ELSE ParseOperands(Tail(kinds), operand.rest, Append(acc, operand.token))

NoInstruction == [opcode |-> "Igl", operands |-> <<>>]

\* parse_instruction: opcode, space1, then the operands; what follows the
\* last operand is returned as the rest
parse_instruction(input) ==
    LET o == parse_opcode(input)
        spaces == PrefixLen(o.rest, SpaceChars)
    IN  IF ~o.ok \/ spaces = 0
        THEN [ok |-> FALSE, instruction |-> NoInstruction, rest |-> input]
        ELSE LET p == ParseOperands(operands(o.opcode), Drop(o.rest, spaces), <<>>)
             IN  IF ~p.ok
                 THEN [ok |-> FALSE, instruction |-> NoInstruction, rest |-> input]
                 ELSE [ok |-> TRUE,
                       instruction |-> [opcode |-> o.opcode, operands |-> p.operands],
                       rest |-> p.rest]

\* many1(terminated(take_until("\n"), newline)): the lines that end in a
\* newline, and the text after the last newline as the rest
RECURSIVE UntilNewline(_)
UntilNewline(input) ==
    IF input = <<>> \/ Head(input) = "\n" THEN 0 ELSE 1 + UntilNewline(Tail(input))

RECURSIVE TakeLines(_, _)
TakeLines(input, acc) ==
    LET n == UntilNewline(input)
    IN  IF n = Len(input) THEN [lines |-> acc, rest |-> input]
        ELSE TakeLines(Drop(input, n + 1), Append(acc, SubSeq(input, 1, n)))

parse_lines(input) ==
    LET t == TakeLines(input, <<>>)
    IN  [ok |-> t.lines # <<>>, lines |-> t.lines, rest |-> t.rest]

\* parse_assembly: every line through parse_instruction, whose rest is
\* dropped; the first line that fails fails the assembly
parse_assembly(input) ==
    LET l == parse_lines(input)
        parsed_lines == [i \in 1..Len(l.lines) |-> parse_instruction(l.lines[i])]
    IN  IF l.ok /\ \A i \in 1..Len(l.lines) : parsed_lines[i].ok
        THEN [ok |-> TRUE,
              instructions |-> [i \in 1..Len(l.lines) |-> parsed_lines[i].instruction],
              rest |-> l.rest]
        ELSE [ok |-> FALSE, instructions |-> <<>>, rest |-> input]

\* Program::from_str: the rest parse_assembly returns is dropped
from_str(input) ==
    LET p == parse_assembly(input)
    IN  [done |-> TRUE, ok |-> p.ok, instructions |-> p.instructions,
         rest |-> p.rest]

-----------------------------------------------------------------------------
(* Virtual machine: src/src/vm.rs                                          *)

\* Vm::new
NewVm ==
    [registers |-> [i \in 0..(REGISTER_COUNT - 1) |-> 0],
     pc |-> 0,
     program |-> <<>>,
     heap |-> <<>>,
     rem |-> <<0, 0>>,
     cmp |-> 0]

\* the program vector is indexed from 0 in the source, from 1 here
ByteAt(vm, i) == vm.program[i + 1]

\* outcome of a read: the value and the machine after it, or the panic
ReadOk(vm, val) == [ok |-> TRUE, val |-> val, vm |-> vm, msg |-> ""]
ReadPanic(vm, msg) == [ok |-> FALSE, val |-> 0, vm |-> vm, msg |-> msg]

ProgramOutOfBounds == "index out of bounds: program"
RegisterOutOfBounds == "index out of bounds: registers"

\* Vm::next_8_bits
next_8_bits(vm) ==
    IF vm.pc >= Len(vm.program)
    THEN ReadPanic(vm, ProgramOutOfBounds)
    ELSE ReadOk([vm EXCEPT !.pc = @ + 1], ByteAt(vm, vm.pc))

\* Vm::next_16_bits
next_16_bits(vm) ==
    IF vm.pc + 1 >= Len(vm.program)
    THEN ReadPanic(vm, ProgramOutOfBounds)
    ELSE ReadOk([vm EXCEPT !.pc = @ + 2],
                ByteAt(vm, vm.pc) * 256 + ByteAt(vm, vm.pc + 1))

\* self.registers[self.next_8_bits() as usize], read
ReadRegister(vm) ==
    LET n == next_8_bits(vm)
    IN  IF ~n.ok THEN n
        ELSE IF n.val >= REGISTER_COUNT THEN ReadPanic(n.vm, RegisterOutOfBounds)
        ELSE ReadOk(n.vm, n.vm.registers[n.val])

\* outcome of execute_instruction: ret is what it returns ("true", "false"),
\* "panic" when it unwinds, "bound" when the heap would outgrow the model
\* and end is the pc the instruction's own reads reached
Outcome(vm, ret, msg) == [vm |-> vm, ret |-> ret, msg |-> msg, end |-> vm.pc]
Returns(vm, done) == Outcome(vm, IF done THEN "true" ELSE "false", "")
Panics(vm, msg) == Outcome(vm, "panic", msg)

\* self.registers[self.next_8_bits() as usize] = value
WriteRegister(vm, value) ==
    LET n == next_8_bits(vm)
    IN  IF ~n.ok THEN Panics(n.vm, n.msg)
        ELSE IF n.val >= REGISTER_COUNT THEN Panics(n.vm, RegisterOutOfBounds)
        ELSE Returns([n.vm EXCEPT !.registers[n.val] = value], FALSE)

\* a Load that leaves pc on its own opcode byte
ExecLoadRewinding(vm) ==
    LET r == next_8_bits(vm)
    IN  IF ~r.ok THEN Panics(r.vm, r.msg)
        ELSE LET n == next_16_bits(r.vm)
             IN  IF ~n.ok THEN Panics(n.vm, n.msg)
                 ELSE IF r.val >= REGISTER_COUNT
                 THEN Panics(n.vm, RegisterOutOfBounds)
                 ELSE Returns([n.vm EXCEPT !.registers[r.val] = U16AsI32(n.val),
                                           !.pc = vm.pc - 1],
                              FALSE)

\* Opcode::Load
ExecLoad(vm) ==
    LET r == next_8_bits(vm)
    IN  IF ~r.ok THEN Panics(r.vm, r.msg)
        ELSE LET n == next_16_bits(r.vm)
             IN  IF ~n.ok THEN Panics(n.vm, n.msg)
                 ELSE IF r.val >= REGISTER_COUNT
                 THEN Panics(n.vm, RegisterOutOfBounds)
                 ELSE Returns([n.vm EXCEPT !.registers[r.val] = U16AsI32(n.val)],
                              FALSE)

\* register1 + register2, register1 - register2, register1 * register2
ArithOverflows(op, a, b) ==
    CASE op = "Add" -> AddOverflows(a, b)
      [] op = "Sub" -> SubOverflows(a, b)
      [] op = "Mul" -> MulOverflows(a, b)

ArithWrapped(op, a, b) ==
    CASE op = "Add" -> wrapping_add(a, b)
      [] op = "Sub" -> wrapping_sub(a, b)
      [] op = "Mul" -> wrapping_mul(a, b)

ArithPanic(op) ==
    CASE op = "Add" -> "attempt to add with overflow"
      [] op = "Sub" -> "attempt to subtract with overflow"
      [] op = "Mul" -> "attempt to multiply with overflow"

\* Opcode::Add, Opcode::Sub, Opcode::Mul: the value is computed before the
\* destination operand is read
ExecArith(vm, op, checks) ==
    LET a == ReadRegister(vm)
    IN  IF ~a.ok THEN Panics(a.vm, a.msg)
        ELSE LET b == ReadRegister(a.vm)
             IN  IF ~b.ok THEN Panics(b.vm, b.msg)
                 ELSE IF checks /\ ArithOverflows(op, a.val, b.val)
                 THEN Panics(b.vm, ArithPanic(op))
                 ELSE WriteRegister(b.vm, ArithWrapped(op, a.val, b.val))

\* Opcode::Div
ExecDiv(vm) ==
    LET a == ReadRegister(vm)
    IN  IF ~a.ok THEN Panics(a.vm, a.msg)
        ELSE LET b == ReadRegister(a.vm)
             IN  IF ~b.ok THEN Panics(b.vm, b.msg)
                 ELSE IF b.val = 0
                 THEN Panics(b.vm, "attempt to divide by zero")
                 ELSE IF a.val = I32_MIN /\ b.val = -1
                 THEN Panics(b.vm, "attempt to divide with overflow")
                 ELSE LET w == WriteRegister(b.vm, TruncDiv(a.val, b.val))
                      IN  IF w.ret = "panic" THEN w
                          ELSE Returns([w.vm EXCEPT
                                           !.rem = AsU32(TruncRem(a.val, b.val))],
                                       FALSE)

MulOverflowPanic == "attempt to multiply with overflow"

\* a pc of at least PcHuge is kept as PcHuge
JumpTo(vm, target) ==
    [vm |-> [vm EXCEPT !.pc = target], ret |-> "false", msg |-> "", end |-> vm.pc]

\* self.pc = target as usize * 4: a negative target sign-extends to
\* 2^64 + target, whose product with 4 overflows usize
JumpAbsolute(vm, target, checks) ==
    IF target < 0
    THEN IF checks THEN Panics(vm, MulOverflowPanic) ELSE JumpTo(vm, PcHuge)
    ELSE IF target > PcHuge \div 4 THEN JumpTo(vm, PcHuge)
    ELSE JumpTo(vm, 4 * target)

\* self.pc += target as usize * 4
JumpForward(vm, target, checks) ==
    IF target < 0
    THEN IF checks THEN Panics(vm, MulOverflowPanic)
         ELSE IF target >= -(vm.pc \div 4) THEN JumpTo(vm, vm.pc + 4 * target)
         ELSE JumpTo(vm, PcHuge)
    ELSE IF target > (PcHuge - vm.pc) \div 4 THEN JumpTo(vm, PcHuge)
    ELSE JumpTo(vm, vm.pc + 4 * target)

\* Jmpb that subtracts from the address of the JMPB instead of the address
\* after it
JumpBackwardFromStart(vm, target, checks) ==
    IF target < 0
    THEN IF checks THEN Panics(vm, MulOverflowPanic) ELSE JumpTo(vm, PcHuge)
    ELSE IF target <= (vm.pc - 4) \div 4 THEN JumpTo(vm, vm.pc - 4 - 4 * target)
    ELSE IF checks THEN Panics(vm, "attempt to subtract with overflow")
    ELSE JumpTo(vm, PcHuge)

\* self.pc -= target as usize * 4
JumpBackward(vm, target, checks) ==
    IF target < 0
    THEN IF checks THEN Panics(vm, MulOverflowPanic)
         ELSE IF target < -((PcHuge - vm.pc) \div 4) THEN JumpTo(vm, PcHuge)
         ELSE JumpTo(vm, vm.pc - 4 * target)
    ELSE IF target <= vm.pc \div 4 THEN JumpTo(vm, vm.pc - 4 * target)
    ELSE IF checks THEN Panics(vm, "attempt to subtract with overflow")
    ELSE JumpTo(vm, PcHuge)

\* Opcode::Jmp, Opcode::Jmpb, Opcode::Jmpf
ExecJump(vm, op, checks) ==
    LET t == ReadRegister(vm)
    IN  IF ~t.ok THEN Panics(t.vm, t.msg)
        ELSE LET n == next_16_bits(t.vm)
             IN  IF ~n.ok THEN Panics(n.vm, n.msg)
                 ELSE CASE op = "Jmp" -> JumpAbsolute(n.vm, t.val, checks)
                        [] op = "Jmpb" -> JumpBackward(n.vm, t.val, checks)
                        [] op = "Jmpf" -> JumpForward(n.vm, t.val, checks)

\* the relation a comparison opcode tests
Compare(op, a, b) ==
    CASE op = "Eq" -> a = b
      [] op = "Neq" -> a # b
      [] op = "Gt" -> a > b
      [] op = "Lt" -> a < b
      [] op = "Gtq" -> a >= b
      [] op = "Ltq" -> a <= b

\* a trailing self.next_8_bits() whose value is dropped
SkipByte(vm) ==
    LET n == next_8_bits(vm)
    IN  IF ~n.ok THEN Panics(n.vm, n.msg) ELSE Returns(n.vm, FALSE)

\* a comparison that takes its operands in the other order
ExecCompareSwapped(vm, op) ==
    LET a == ReadRegister(vm)
    IN  IF ~a.ok THEN Panics(a.vm, a.msg)
        ELSE LET b == ReadRegister(a.vm)
             IN  IF ~b.ok THEN Panics(b.vm, b.msg)
                 ELSE SkipByte([b.vm EXCEPT
                                   !.cmp = BoolAsU32(Compare(op, b.val, a.val))])

\* Opcode::Eq .. Opcode::Ltq
ExecCompare(vm, op) ==
    LET a == ReadRegister(vm)
    IN  IF ~a.ok THEN Panics(a.vm, a.msg)
        ELSE LET b == ReadRegister(a.vm)
             IN  IF ~b.ok THEN Panics(b.vm, b.msg)
                 ELSE SkipByte([b.vm EXCEPT
                                   !.cmp = BoolAsU32(Compare(op, a.val, b.val))])

\* a Jeq that consumes the flag it reads
ExecJeqClearing(vm, checks) ==
    LET t == ReadRegister(vm)
    IN  IF ~t.ok THEN Panics(t.vm, t.msg)
        ELSE LET n == next_16_bits(t.vm)
             IN  IF ~n.ok THEN Panics(n.vm, n.msg)
                 ELSE IF n.vm.cmp = 1
                 THEN JumpAbsolute([n.vm EXCEPT !.cmp = 0], t.val, checks)
                 ELSE Returns(n.vm, FALSE)

\* a Jeq that jumps when the flag is 0
ExecJeqInverted(vm, checks) ==
    LET t == ReadRegister(vm)
    IN  IF ~t.ok THEN Panics(t.vm, t.msg)
        ELSE LET n == next_16_bits(t.vm)
             IN  IF ~n.ok THEN Panics(n.vm, n.msg)
                 ELSE IF n.vm.cmp = 0 THEN JumpAbsolute(n.vm, t.val, checks)
                 ELSE Returns(n.vm, FALSE)

\* Opcode::Jeq
ExecJeq(vm, checks) ==
    LET t == ReadRegister(vm)
    IN  IF ~t.ok THEN Panics(t.vm, t.msg)
        ELSE LET n == next_16_bits(t.vm)
             IN  IF ~n.ok THEN Panics(n.vm, n.msg)
                 ELSE IF n.vm.cmp = 1 THEN JumpAbsolute(n.vm, t.val, checks)
                 ELSE Returns(n.vm, FALSE)

\* a fill with a byte other than 0
Ones(n) == [i \in 1..n |-> 1]

Zeros(n) == [i \in 1..n |-> 0]

\* two trailing self.next_8_bits() whose values are dropped
SkipTwoBytes(vm) ==
    LET s1 == SkipByte(vm)
    IN  IF s1.ret = "panic" THEN s1 ELSE SkipByte(s1.vm)

\* self.heap.len() + size as usize, then self.heap.resize(new_heap_len, 0):
\* a negative size sign-extends to 2^64 + size; the sum overflows usize when
\* heap.len() >= -size, and otherwise exceeds what a Vec can hold
HeapResize(vm, size_, checks) ==
    IF size_ >= 0
    THEN IF size_ > MaxHeap - Len(vm.heap)
         THEN Outcome(vm, "bound", "")
         ELSE Returns([vm EXCEPT !.heap = @ \o Zeros(size_)], FALSE)
    ELSE IF size_ >= -Len(vm.heap)
         THEN IF checks THEN Panics(vm, "attempt to add with overflow")
              ELSE Returns([vm EXCEPT !.heap = SubSeq(@, 1, Len(@) + size_)], FALSE)
         ELSE Panics(vm, "capacity overflow")

\* Opcode::Alloc
ExecAlloc(vm, checks) ==
    LET s == ReadRegister(vm)
    IN  IF ~s.ok THEN Panics(s.vm, s.msg)
        ELSE LET h == HeapResize(s.vm, s.val, checks)
             IN  IF h.ret # "false" THEN h ELSE SkipTwoBytes(h.vm)

\* Opcode::Inc (by = 1), Opcode::Dec (by = -1)
ExecIncDec(vm, by, checks) ==
    LET r == next_8_bits(vm)
    IN  IF ~r.ok THEN Panics(r.vm, r.msg)
        ELSE IF r.val >= REGISTER_COUNT THEN Panics(r.vm, RegisterOutOfBounds)
        ELSE LET old == r.vm.registers[r.val]
             IN  IF checks /\ AddOverflows(old, by)
                 THEN Panics(r.vm, IF by = 1 THEN "attempt to add with overflow"
                                   ELSE "attempt to subtract with overflow")
                 ELSE SkipTwoBytes([r.vm EXCEPT
                                       !.registers[r.val] = wrapping_add(old, by)])

\* decode_opcode without the self.pc += 1
decode_opcode_stay(vm) ==
    [opcode |-> OpcodeFromU8(ByteAt(vm, vm.pc)), vm |-> vm]

\* Vm::decode_opcode
decode_opcode(vm) ==
    [opcode |-> OpcodeFromU8(ByteAt(vm, vm.pc)), vm |-> [vm EXCEPT !.pc = @ + 1]]

\* the match of execute_instruction, on the machine after decode_opcode
ExecOpcode(vm, opcode, checks) ==
    CASE opcode = "Hlt" -> Returns(vm, TRUE)
      [] opcode = "Load" -> ExecLoad(vm)
      [] opcode \in {"Add", "Sub", "Mul"} -> ExecArith(vm, opcode, checks)
      [] opcode = "Div" -> ExecDiv(vm)
      [] opcode \in {"Jmp", "Jmpb", "Jmpf"} -> ExecJump(vm, opcode, checks)
      [] opcode \in {"Eq", "Neq", "Gt", "Lt", "Gtq", "Ltq"} -> ExecCompare(vm, opcode)
      [] opcode = "Jeq" -> ExecJeq(vm, checks)
      [] opcode = "Alloc" -> ExecAlloc(vm, checks)
      [] opcode = "Inc" -> ExecIncDec(vm, 1, checks)
      [] opcode = "Dec" -> ExecIncDec(vm, -1, checks)
      [] opcode = "Igl" -> Returns(vm, TRUE)

\* Vm::execute_instruction
execute_instruction(vm, checks) ==
    IF vm.pc >= Len(vm.program)
    THEN Returns(vm, TRUE)
    ELSE LET d == decode_opcode(vm) IN ExecOpcode(d.vm, d.opcode, checks)

\* Vm::run: the loop, on a machine of its own; calls counts the calls of
\* execute_instruction made, fetched those that decoded an opcode, and
\* before is the machine as the last call found it
RECURSIVE RunLoop(_, _, _, _, _)
RunLoop(vm, checks, made, decoded, fuel) ==
    LET o == execute_instruction(vm, checks)
        f == IF vm.pc < Len(vm.program) THEN decoded + 1 ELSE decoded
        r == [valid |-> TRUE, vm |-> o.vm, ret |-> o.ret, msg |-> o.msg,
              calls |-> made + 1, fetched |-> f, before |-> vm]
    IN  IF o.ret = "false"
        THEN IF fuel = 0 THEN [r EXCEPT !.ret = "fuel"]
             ELSE RunLoop(o.vm, checks, made + 1, f, fuel - 1)
        ELSE r

\* run with a loop that executes once more after is_done
run_once_more(vm, checks) ==
    LET r == RunLoop(vm, checks, 0, 0, MaxCalls)
    IN  [r EXCEPT !.vm = execute_instruction(r.vm, checks).vm]

run(vm, checks) == RunLoop(vm, checks, 0, 0, MaxCalls)

\* an add_byte that also restarts the program
add_byte_restart(vm, byte) == [vm EXCEPT !.program = Append(@, byte), !.pc = 0]

\* Vm::add_byte
add_byte(vm, byte) == [vm EXCEPT !.program = Append(@, byte)]

\* for byte in bytes { self.vm.add_byte(byte) }
RECURSIVE add_bytes(_, _)
add_bytes(vm, bytes) ==
    IF bytes = <<>> THEN vm ELSE add_bytes(add_byte(vm, Head(bytes)), Tail(bytes))

NotRun ==
    [valid |-> FALSE, vm |-> NewVm, ret |-> "none", msg |-> "",
     calls |-> 0, fetched |-> 0, before |-> NewVm]

-----------------------------------------------------------------------------
(* Programs                                                                *)

Reg(r) == [kind |-> "Register", reg |-> r, num |-> 0]
Num(v) == [kind |-> "Number", reg |-> 0, num |-> v]
Instr(op, toks) == [opcode |-> op, operands |-> toks]

\* immediates an assembly source gives to LOAD
ImmValues == {0, 1, 500, 32767, 32768, 65535, 65536, 70000, I32_MAX}

\* register indices an assembly source names
SourceRegs == 0..(REGISTER_COUNT - 1) \cup {REGISTER_COUNT, 255}

\* one instruction of every opcode, as the assembler holds it
OneInstrSources ==
    {<<Instr("Load", <<Reg(r), Num(v)>>)>> : r \in SourceRegs, v \in ImmValues}
    \cup {<<Instr(op, <<Reg(0), Reg(1), Reg(2)>>)>> : op \in {"Add", "Sub", "Mul", "Div"}}
    \cup {<<Instr(op, <<Reg(0), Reg(1)>>)>> : op \in {"Eq", "Neq", "Gt", "Lt", "Gtq", "Ltq"}}
    \cup {<<Instr(op, <<Reg(0)>>)>> : op \in {"Jmp", "Jmpf", "Jmpb", "Jeq", "Alloc", "Inc", "Dec"}}
    \cup {<<Instr("Hlt", <<>>)>>}

\* the programs of the spec's examples
ExampleSources ==
    {<<Instr("Load", <<Reg(0), Num(250)>>), Instr("Load", <<Reg(1), Num(250)>>),
       Instr("Add", <<Reg(0), Reg(1), Reg(2)>>)>>,
     <<Instr("Load", <<Reg(0), Num(10)>>), Instr("Load", <<Reg(1), Num(3)>>),
       Instr("Div", <<Reg(0), Reg(1), Reg(2)>>)>>,
     <<Instr("Load", <<Reg(0), Num(10)>>), Instr("Alloc", <<Reg(0)>>)>>}

Sources == OneInstrSources \cup ExampleSources

\* byte-level instructions, as the tests and the REPL give them
HaltVocab == {<<0>>, <<255>>, <<16>>}

LoadVocab == {<<1, 0, 0, 2>>, <<1, 1, 255, 255>>, <<1, 1, 0, 1>>, <<1, 0, 128, 0>>}

ArithVocab == {<<2, 0, 1, 0>>, <<3, 0, 1, 2>>, <<3, 2, 0, 0>>, <<4, 1, 1, 2>>,
               <<5, 0, 1, 2>>, <<5, 1, 0, 0>>}

JumpVocab == {<<6, 0, 0, 0>>, <<7, 0, 0, 0>>, <<8, 0, 0, 0>>, <<15, 0, 0, 0>>}

CompareVocab == {<<9, 0, 1, 0>>, <<10, 0, 1, 0>>, <<11, 0, 1, 0>>,
                 <<12, 0, 1, 0>>, <<13, 0, 1, 0>>, <<14, 0, 1, 0>>}

HeapVocab == {<<17, 0, 0, 0>>, <<18, 0, 0, 0>>, <<19, 0, 0, 0>>}

\* a register operand outside the register file
BadRegVocab == {<<1, 32, 0, 1>>, <<2, 0, 1, 32>>, <<3, 255, 0, 1>>, <<5, 0, 40, 1>>,
                <<9, 0, 32, 0>>, <<6, 32, 0, 0>>, <<17, 32, 0, 0>>, <<18, 200, 0, 0>>}

\* an instruction cut short
CutVocab == {<<1, 0, 5>>, <<1, 0>>, <<2, 0, 1>>, <<5, 1>>, <<6, 0>>, <<9, 0, 1>>,
             <<15, 0, 0>>, <<17, 0, 0>>, <<18, 0>>, <<19>>}

Vocab == HaltVocab \cup LoadVocab \cup ArithVocab \cup JumpVocab
         \cup {<<9, 0, 1, 0>>, <<12, 0, 1, 0>>} \cup HeapVocab
         \cup {<<2, 0, 1, 32>>, <<1, 32, 0, 1>>} \cup {<<1, 0, 5>>, <<18, 0>>, <<9, 0, 1>>}

TailVocab == HaltVocab \cup ArithVocab \cup JumpVocab \cup CompareVocab
             \cup HeapVocab \cup BadRegVocab \cup CutVocab

RECURSIVE Concat(_)
Concat(ss) == IF ss = <<>> THEN <<>> ELSE Head(ss) \o Concat(Tail(ss))

\* the byte sequences made of at most n instructions of vocabulary v
SeqsUpTo(v, n) == UNION {{Concat(ss) : ss \in [1..k -> v]} : k \in 0..n}

\* programs that bring the registers to values no single LOAD gives:
\* r0 = -7, r1 = 2
ScriptNegPos == <<1, 1, 0, 7, 3, 0, 1, 0, 1, 1, 0, 2>>
\* r0 = 7, r1 = -2
ScriptPosNeg == <<1, 0, 0, 2, 3, 1, 0, 1, 1, 0, 0, 7>>
\* r0 = -7, r1 = -2
ScriptNegNeg == <<1, 2, 0, 7, 3, 0, 2, 0, 1, 2, 0, 2, 3, 1, 2, 1>>
\* r0 = i32::MIN, r1 = -1
ScriptMin == <<1, 0, 128, 0, 1, 1, 255, 255, 3, 2, 0, 2, 4, 2, 1, 2, 3, 2, 0, 0,
               1, 1, 0, 0, 19, 1, 0, 0>>
\* r0 = i32::MAX, r1 = 1
ScriptMax == <<1, 0, 128, 0, 4, 0, 0, 0, 2, 0, 2, 1, 19, 0, 0, 0, 2, 0, 1, 0,
               1, 1, 0, 1>>

Scripts == {ScriptNegPos, ScriptPosNeg, ScriptNegNeg, ScriptMin, ScriptMax}

\* the programs of test_opcode_jmp, test_opcode_jmpb, test_opcode_jmpf,
\* test_opcode_jeq (both) and test_opcode_alloc
JumpTests ==
    {<<1, 0, 0, 0, 6, 0, 0, 0>>,
     <<1, 0, 0, 1, 8, 0, 0, 0>>,
     <<1, 0, 0, 1, 7, 0, 0, 0, 1, 0, 0, 1>>}

JeqTaken ==
    <<1, 0, 0, 5, 1, 1, 0, 5, 9, 0, 1, 0, 15, 0, 0, 0, 1, 0, 0, 0, 1, 1, 0, 0>>

JeqNotTaken ==
    <<1, 0, 0, 5, 1, 1, 0, 6, 9, 0, 1, 0, 15, 0, 0, 0, 1, 0, 0, 0, 1, 1, 0, 0>>

AllocTest == <<1, 0, 0, 10, 17, 0, 0, 0>>

\* ALLOC of 2 bytes, then ALLOC of -1
AllocNegative == <<1, 1, 0, 2, 17, 1, 0, 0, 19, 0, 0, 0, 17, 0, 0, 0>>

\* DIV and EQ followed by ADD, HLT, ALLOC and JMPF
FlagsThenOthers ==
    <<1, 0, 0, 11, 1, 1, 0, 2, 5, 0, 1, 2, 9, 0, 0, 0, 2, 0, 1, 3, 0,
      17, 1, 0, 0, 7, 2, 0, 0>>

\* two ALLOCs of 3 bytes
AllocTwice == <<1, 0, 0, 3, 17, 0, 0, 0, 17, 0, 0, 0>>

\* JMPB, JMPF and JMP on registers[0] = -1, each followed by two LOADs
JumpNegative ==
    {<<1, 1, 0, 1, 3, 0, 1, 0, op, 0, 0, 0, 1, 2, 0, 5, 1, 3, 0, 7>> : op \in {6, 7, 8}}

TestPrograms ==
    JumpTests \cup {JeqTaken, JeqNotTaken, AllocTest, AllocNegative, AllocTwice,
                    FlagsThenOthers}
    \cup JumpNegative

RawPrograms ==
    SeqsUpTo(Vocab, MaxInstr)
    \cup {s \o t : s \in Scripts, t \in SeqsUpTo(TailVocab, MaxTail)}
    \cup SeqsUpTo(CutVocab \cup BadRegVocab \cup CompareVocab, 1)
    \cup TestPrograms

-----------------------------------------------------------------------------
(* State machine                                                           *)

\* the machine this state holds
Vm ==
    [registers |-> registers, pc |-> pc, program |-> program, heap |-> heap,
     rem |-> rem, cmp |-> cmp]

\* a fresh machine given a program: vm.program = bytes
Loaded(bytes) == [NewVm EXCEPT !.program = bytes]

NoStep == [fetched |-> FALSE, opcode |-> "none", end |-> 0, msg |-> ""]

\* Program::from_str has not been called
NotParsed == [done |-> FALSE, ok |-> FALSE, instructions |-> <<>>, rest |-> <<>>]

InitWith(bytes, src) ==
    /\ registers = NewVm.registers
    /\ pc = NewVm.pc
    /\ program = bytes
    /\ heap = NewVm.heap
    /\ rem = NewVm.rem
    /\ cmp = NewVm.cmp
    /\ overflow_checks \in BOOLEAN
    /\ status = "new"
    /\ last = NoStep
    /\ prev = Loaded(bytes)
    /\ ran = NotRun
    /\ source = src
    /\ executed = 0
    /\ typed = <<>>
    /\ text = <<>>
    /\ parsed = NotParsed

\* main.rs: the program is the assembler's output; tests: it is given as bytes
Init ==
    \/ \E src \in Sources : InitWith(program_to_bytes(src), src)
    \/ \E bytes \in RawPrograms : InitWith(bytes, <<>>)

StatusOf(ret) ==
    CASE ret = "true" -> "halted"
      [] ret = "false" -> "continue"
      [] ret = "panic" -> "panic"

\* Vm::run_once
RunOnce ==
    \E o \in {execute_instruction(Vm, overflow_checks)} :
        /\ status # "panic"
        /\ pc < Len(program) => executed < MaxCalls
        /\ o.ret # "bound"
        /\ registers' = o.vm.registers
        /\ pc' = o.vm.pc
        /\ program' = o.vm.program
        /\ heap' = o.vm.heap
        /\ rem' = o.vm.rem
        /\ cmp' = o.vm.cmp
        /\ status' = StatusOf(o.ret)
        /\ last' = [fetched |-> pc < Len(program),
                    opcode |-> IF pc < Len(program)
                               THEN OpcodeFromU8(ByteAt(Vm, pc)) ELSE "none",
                    end |-> o.end,
                    msg |-> o.msg]
        /\ prev' = Vm
        /\ executed' = IF pc < Len(program) THEN executed + 1 ELSE executed
        /\ UNCHANGED <<overflow_checks, ran, source, typed, text, parsed>>

\* Vm::run on a second fresh machine that holds the same program
Run ==
    LET r == run(Loaded(program), overflow_checks)
    IN  /\ ~ran.valid
        /\ status = "new"
        /\ r.ret \in {"true", "panic"}
        /\ ran' = r
        /\ UNCHANGED <<registers, pc, program, heap, rem, cmp, overflow_checks,
                       status, last, prev, source, executed, typed, text, parsed>>

Next == RunOnce \/ Run

Spec == Init /\ [][Next]_vars

\* bytes a user types at the REPL: HLT, LOAD, INC and a byte with no opcode
TypedBytes == {0, 1, 18, 255}

\* one call of Vm::add_byte
AddByte(byte) ==
    \E v \in {add_byte(Vm, byte)} :
        /\ status # "panic"
        /\ Len(program) < MaxTyped
        /\ registers' = v.registers
        /\ pc' = v.pc
        /\ program' = v.program
        /\ heap' = v.heap
        /\ rem' = v.rem
        /\ cmp' = v.cmp
        /\ typed' = Append(typed, byte)
        /\ last' = [NoStep EXCEPT !.opcode = "add_byte"]
        /\ prev' = Vm
        /\ UNCHANGED <<overflow_checks, status, ran, source, executed, text, parsed>>

\* a fresh VM fed by add_byte and stepped by run_once in any order
ReplInit == InitWith(<<>>, <<>>)

ReplNext == (\E byte \in TypedBytes : AddByte(byte)) \/ RunOnce

ReplSpec == ReplInit /\ [][ReplNext]_vars

\* the instructions a round of the REPL feeds: no jumps
RoundInstrs ==
    {Instr("Hlt", <<>>),
     Instr("Load", <<Reg(0), Num(1)>>),
     Instr("Add", <<Reg(0), Reg(0), Reg(1)>>),
     Instr("Div", <<Reg(1), Reg(0), Reg(2)>>),
     Instr("Eq", <<Reg(0), Reg(1)>>),
     Instr("Alloc", <<Reg(0)>>),
     Instr("Inc", <<Reg(0)>>)}

\* the lines of a round: an instruction as Instruction::to_bytes encodes it,
\* a byte with no opcode, and the groups of 4 bytes the REPL asks for
RoundLines ==
    {to_bytes(i) : i \in RoundInstrs}
    \cup {<<255>>}
    \cup {<<0, 0, 0, 0>>, <<255, 0, 0, 0>>, <<9, 0, 1, 0>>, <<18, 0, 0, 0>>}

\* Repl::run, a line of hex bytes: every byte is appended, then run_once
ReplRound(bytes) ==
    \E fed \in {add_bytes(Vm, bytes)} :
      \E o \in {execute_instruction(fed, overflow_checks)} :
        /\ status # "panic"
        /\ executed < MaxRounds
        /\ o.ret # "bound"
        /\ registers' = o.vm.registers
        /\ pc' = o.vm.pc
        /\ program' = o.vm.program
        /\ heap' = o.vm.heap
        /\ rem' = o.vm.rem
        /\ cmp' = o.vm.cmp
        /\ status' = StatusOf(o.ret)
        /\ last' = [fetched |-> fed.pc < Len(fed.program),
                    opcode |-> IF fed.pc < Len(fed.program)
                               THEN OpcodeFromU8(ByteAt(fed, fed.pc)) ELSE "none",
                    end |-> o.end,
                    msg |-> o.msg]
        /\ prev' = fed
        /\ typed' = typed \o bytes
        /\ executed' = executed + 1
        /\ UNCHANGED <<overflow_checks, ran, source, text, parsed>>

RoundNext == \E bytes \in RoundLines : ReplRound(bytes)

RoundSpec == ReplInit /\ [][RoundNext]_vars

\* Texts of assembly source.  A line is <<opcode, operand tokens>>; its text
\* is the mnemonic, then each operand after a single space.
Mnemonic(op) ==
    CASE op = "Hlt" -> <<"H", "L", "T">>
      [] op = "Load" -> <<"L", "O", "A", "D">>
      [] op = "Add" -> <<"A", "D", "D">>
      [] op = "Sub" -> <<"S", "U", "B">>
      [] op = "Mul" -> <<"M", "U", "L">>
      [] op = "Div" -> <<"D", "I", "V">>
      [] op = "Jmp" -> <<"J", "M", "P">>
      [] op = "Jmpf" -> <<"J", "M", "P", "F">>
      [] op = "Jmpb" -> <<"J", "M", "P", "B">>
      [] op = "Eq" -> <<"E", "Q">>
      [] op = "Neq" -> <<"N", "E", "Q">>
      [] op = "Gt" -> <<"G", "T">>
      [] op = "Lt" -> <<"L", "T">>
      [] op = "Gtq" -> <<"G", "T", "Q">>
      [] op = "Ltq" -> <<"L", "T", "Q">>
      [] op = "Jeq" -> <<"J", "E", "Q">>
      [] op = "Alloc" -> <<"A", "L", "L", "O", "C">>
      [] op = "Inc" -> <<"I", "N", "C">>
      [] op = "Dec" -> <<"D", "E", "C">>

\* the decimal text of n >= 0
RECURSIVE DecimalText(_)
DecimalText(n) ==
    IF n < 10 THEN <<Digits[n + 1]>>
    ELSE DecimalText(n \div 10) \o <<Digits[(n % 10) + 1]>>

TokenText(tok) ==
    IF tok.kind = "Register" THEN <<"$">> \o DecimalText(tok.reg)
    ELSE DecimalText(tok.num)

RECURSIVE OperandsText(_)
OperandsText(toks) ==
    IF toks = <<>> THEN <<>>
    ELSE <<" ">> \o TokenText(Head(toks)) \o OperandsText(Tail(toks))

LineText(line) == Mnemonic(line[1]) \o OperandsText(line[2])

\* the lines in order, a newline after each but, when ~terminated, the last
RECURSIVE TextOf(_, _)
TextOf(lines, terminated) ==
    IF lines = <<>> THEN <<>>
    ELSE LineText(Head(lines))
         \o (IF Len(lines) > 1 \/ terminated THEN <<"\n">> ELSE <<>>)
         \o TextOf(Tail(lines), terminated)

\* operands of the kinds Opcode::operands gives: registers $0, $1, $2 and
\* the number 500
CanonicalToks(op) ==
    [i \in 1..Len(operands(op)) |->
        IF operands(op)[i] = "Register" THEN Reg(i - 1) ELSE Num(500)]

CanonicalLines == {<<op, CanonicalToks(op)>> : op \in Opcodes \ {"Igl"}}

\* the kinds of the operands of a line are not those of its opcode
Mismatched(line) ==
    [i \in 1..Len(line[2]) |-> line[2][i].kind] # operands(line[1])

\* too few operands, extra operands, a number for a register, a register
\* for a number
MismatchedLines ==
    {<<"Load", <<Reg(0)>>>>,
     <<"Add", <<Reg(0), Reg(1)>>>>,
     <<"Jmp", <<>>>>,
     <<"Load", <<Reg(0), Num(1), Reg(2)>>>>,
     <<"Add", <<Reg(0), Reg(1), Reg(2), Reg(3)>>>>,
     <<"Eq", <<Reg(0), Reg(1), Reg(2)>>>>,
     <<"Jmp", <<Reg(0), Num(2)>>>>,
     <<"Hlt", <<Reg(0)>>>>,
     <<"Load", <<Num(1), Num(1)>>>>,
     <<"Load", <<Reg(0), Reg(1)>>>>,
     <<"Eq", <<Reg(0), Num(1)>>>>}

Lines ==
    CanonicalLines \cup MismatchedLines
    \cup {<<"Load", <<Reg(255), Num(65535)>>>>, <<"Load", <<Reg(31), Num(I32_MAX)>>>>}

\* the lines of texts of more than one line
PairLines ==
    {<<"Load", <<Reg(0), Num(1)>>>>,
     <<"Load", <<Reg(1), Num(2)>>>>,
     <<"Add", <<Reg(0), Reg(1), Reg(2)>>>>,
     <<"Jmpf", <<Reg(0)>>>>}

Texts ==
    {TextOf(<<line>>, t) : line \in Lines, t \in BOOLEAN}
    \cup UNION {{TextOf(lines, t) : lines \in [1..k -> PairLines], t \in BOOLEAN} :
                   k \in 2..MaxLines}

\* main.rs: nothing is assembled yet
AsmInit ==
    /\ registers = NewVm.registers
    /\ pc = NewVm.pc
    /\ program = NewVm.program
    /\ heap = NewVm.heap
    /\ rem = NewVm.rem
    /\ cmp = NewVm.cmp
    /\ overflow_checks \in BOOLEAN
    /\ status = "new"
    /\ last = NoStep
    /\ prev = NewVm
    /\ ran = NotRun
    /\ source = <<>>
    /\ executed = 0
    /\ typed = <<>>
    /\ text \in Texts
    /\ parsed = NotParsed

\* main.rs: Program::from_file(..).unwrap(), then vm.program = to_bytes()
Assemble ==
    \E p \in {from_str(text)} :
        /\ ~parsed.done
        /\ parsed' = p
        /\ IF p.ok
           THEN /\ source' = p.instructions
                /\ program' = program_to_bytes(p.instructions)
                /\ prev' = Loaded(program_to_bytes(p.instructions))
                /\ UNCHANGED <<status, last>>
           ELSE /\ status' = "panic"
                /\ last' = [NoStep EXCEPT !.msg = "called Result::unwrap() on an Err value"]
                /\ UNCHANGED <<source, program, prev>>
        /\ UNCHANGED <<registers, pc, heap, rem, cmp, overflow_checks, ran,
                       executed, typed, text>>

AsmNext == Assemble \/ (parsed.done /\ RunOnce)

AsmSpec == AsmInit /\ [][AsmNext]_vars

\* programs for the loop of Vm::run: the test programs, straight-line
\* programs on large and negative values, halting bytes and cut instructions
LivePrograms ==
    TestPrograms
    \cup {s \o t : s \in {ScriptNegPos, ScriptMax},
                   t \in HeapVocab \cup {<<0>>, <<5, 1, 0, 0>>, <<9, 0, 1, 0>>}}
    \cup SeqsUpTo(CutVocab \cup HaltVocab, 1)

LiveInit == \E bytes \in LivePrograms : InitWith(bytes, <<>>)

\* the loop of Vm::run calls execute_instruction again until it returns
\* true: a step that can be taken is taken
LiveSpec == LiveInit /\ [][RunOnce]_vars /\ WF_vars(RunOnce)

-----------------------------------------------------------------------------
(* Properties                                                              *)

\* byte i of the instruction the last step decoded (0 is the opcode byte)
LastByte(i) == prev.program[prev.pc + 1 + i]

\* the bytes left in the buffer from the opcode byte of the last step on
LastAvailable == Len(prev.program) - prev.pc

\* the last step changed neither the heap, nor rem, nor cmp
LastKeptHeapRemCmp == heap = prev.heap /\ rem = prev.rem /\ cmp = prev.cmp

\* an instruction of the opcode with operands of the kinds Opcode::operands gives
InstrOf(op) ==
    Instr(op, [i \in 1..Len(operands(op)) |->
                  IF operands(op)[i] = "Register" THEN Reg(0) ELSE Num(0)])

\* C1: for every opcode but ILLEGAL, the bytes the VM consumes when it
\* executes the opcode (before a jump target is applied) are as many as the
\* assembler emits for it, and both equal Opcode::size.
C1_ConsumedIsEmittedIsSize ==
    (last.fetched /\ last.opcode # "Igl" /\ status # "panic")
        => /\ last.end - prev.pc = size(last.opcode)
           /\ Len(to_bytes(InstrOf(last.opcode))) = size(last.opcode)

\* C2: when run() halts after executing N instructions, N single steps on a
\* fresh VM holding the same program end in the same machine state.
C2_StepRunEquivalence ==
    (ran.valid /\ ran.ret = "true" /\ executed = ran.fetched) => Vm = ran.vm

C2_Witness ==
    /\ ran.valid /\ ran.ret = "true" /\ executed = ran.fetched
    /\ executed >= 2
    /\ registers # NewVm.registers
    /\ pc < Len(program)

\* the 16-bit value x read as a signed value
SignExtend16(x) == IF x >= 32768 THEN x - Pow16 ELSE x

\* C3: LOAD reg,imm sets registers[reg] to the immediate sign-extended to 32
\* bits and changes no other register, nor the heap, rem or cmp.
C3_LoadSignExtends ==
    (last.fetched /\ last.opcode = "Load" /\ status = "continue")
        => /\ registers = [prev.registers EXCEPT
                              ![LastByte(1)] = SignExtend16(LastByte(2) * 256 + LastByte(3))]
           /\ LastKeptHeapRemCmp

\* the source is the single line LOAD $r v
IsLoadSource ==
    /\ Len(source) = 1
    /\ source[1].opcode = "Load"
    /\ source[1].operands[1].reg < REGISTER_COUNT

\* C4: LOAD $r v (r < 32) is encoded as opcode byte, r, then the two bytes
\* of v mod 2^16 high byte first; a fresh VM that runs these bytes decodes
\* the same 16-bit value, and registers[r] holds v whenever 0 <= v <= 32767.
C4_LoadRoundTrip ==
    IsLoadSource =>
        LET r == source[1].operands[1].reg
            v == source[1].operands[2].num
        IN  /\ program = <<1, r, (v % Pow16) \div 256, (v % Pow16) % 256>>
            /\ ran.valid =>
                  /\ ran.ret = "true"
                  /\ ran.vm.registers[r] = v % Pow16
                  /\ (0 <= v /\ v <= 32767) => ran.vm.registers[r] = v

C4_Witness ==
    /\ IsLoadSource
    /\ ran.valid
    /\ source[1].operands[1].reg = 31
    /\ source[1].operands[2].num = 500
    /\ ran.vm.registers[31] = 500

\* the last step decoded a three-register instruction that lies whole in the
\* buffer and names registers of the register file
LastThreeRegisters ==
    /\ last.fetched
    /\ LastAvailable >= 4
    /\ \A i \in 1..3 : LastByte(i) < REGISTER_COUNT

\* C5: ADD, SUB, MUL reg_a,reg_b,reg_dst set registers[reg_dst] to the 32-bit
\* signed result computed from the values the sources held before the
\* instruction, and leave every other register, heap, rem and cmp unchanged.
C5_ArithSetsDestination ==
    (LastThreeRegisters /\ last.opcode \in {"Add", "Sub", "Mul"})
        => /\ status = "continue"
           /\ registers = [prev.registers EXCEPT
                              ![LastByte(3)] =
                                  ArithWrapped(last.opcode,
                                               prev.registers[LastByte(1)],
                                               prev.registers[LastByte(2)])]
           /\ LastKeptHeapRemCmp

\* the value of a u32 held as <<high, low>> is that of the i32 x, or 2^32 + x
\* when x is negative
IsU32Of(u, x) ==
    IF x >= 0 THEN u[1] * Pow16 + u[2] = x
    ELSE (u[1] - Pow16) * Pow16 + u[2] = x

\* C6: DIV with a non-zero divisor sets registers[reg_dst] to the quotient
\* truncated toward zero and rem to the signed remainder reinterpreted as
\* unsigned 32-bit; quotient * b + remainder = a.
C6_DivQuotientRemainder ==
    (LastThreeRegisters /\ last.opcode = "Div" /\ prev.registers[LastByte(2)] # 0)
        => /\ status = "continue"
           /\ LET a == prev.registers[LastByte(1)]
                  b == prev.registers[LastByte(2)]
                  q == registers[LastByte(3)]
              IN  \E r \in {a - q * b} :
                     /\ IsU32Of(rem, r)
                     /\ (a >= 0 => r >= 0 /\ q * b <= a)
                     /\ (a < 0 => r <= 0 /\ q * b >= a)
                     /\ (b > 0 => r < b /\ -b < r)
                     /\ (b < 0 /\ b # I32_MIN => r < -b /\ b < r)

\* C7: DIV with a zero divisor ends in a reported DivisionByZero fault (not a
\* process abort) and leaves the machine as the last completed instruction
\* left it.
C7_DivByZeroIsReportedFault ==
    (LastThreeRegisters /\ last.opcode = "Div" /\ prev.registers[LastByte(2)] = 0)
        => status # "panic" /\ Vm = prev

\* the last step decoded an opcode one of whose register operands, present in
\* the buffer, is no index of the register file
LastBadRegister ==
    /\ last.fetched
    /\ last.opcode \notin {"Hlt", "Igl"}
    /\ \E i \in 1..Len(operands(last.opcode)) :
          /\ operands(last.opcode)[i] = "Register"
          /\ i < LastAvailable
          /\ LastByte(i) >= REGISTER_COUNT

\* C8: a register operand byte >= 32 ends the step in a reported
\* InvalidRegisterIndex fault; no register, flag, remainder or heap byte
\* changes.
C8_BadRegisterIsReportedFault ==
    LastBadRegister
        => status # "panic" /\ registers = prev.registers /\ LastKeptHeapRemCmp

\* the last step decoded an opcode that declares more operand bytes than the
\* buffer holds after it
LastUnderrun ==
    /\ last.fetched
    /\ last.opcode \notin {"Hlt", "Igl"}
    /\ size(last.opcode) > LastAvailable

\* C9: an opcode with more declared operand bytes than remain ends the step
\* in a reported ProgramUnderrun fault; registers, heap, rem and cmp keep
\* their values.
C9_UnderrunIsReportedFault ==
    LastUnderrun
        => status # "panic" /\ registers = prev.registers /\ LastKeptHeapRemCmp

\* bytes that are HLT or have no opcode assigned
HaltingBytes == {b \in Bytes : OpcodeFromU8(b) \in {"Hlt", "Igl"}}

LastHalting == last.fetched /\ LastByte(0) \in HaltingBytes

\* C10: a step that fetches HLT or a byte with no opcode yields Halted, with
\* pc advanced by exactly 1 and nothing else changed; run() stops there and
\* executes no later byte.
C10_HaltAdvancesPcByOne ==
    /\ LastHalting
          => /\ status = "halted"
             /\ Vm = [prev EXCEPT !.pc = prev.pc + 1]
             /\ ran.valid
                   => /\ ran.ret = "true"
                      /\ ran.fetched <= executed
                      /\ ran.fetched = executed => ran.vm = Vm
    /\ (ran.valid /\ ran.ret = "true" /\ ran.before.pc < Len(program))
          => /\ ByteAt(ran.before, ran.before.pc) \in HaltingBytes
             /\ ran.vm = [ran.before EXCEPT !.pc = ran.before.pc + 1]

C10_Witness ==
    /\ LastHalting
    /\ LastByte(0) = 16
    /\ ran.valid
    /\ ran.fetched = executed
    /\ pc < Len(program)

\* C11: a step yields Halted exactly when pc >= len(program) at its start or
\* the opcode it fetched is HLT or ILLEGAL; in the pc >= len(program) case
\* the machine is unchanged, and every other step yields Continue.
C11_HaltedExactlyWhen ==
    status # "new"
        => /\ status = "halted" <=> (~last.fetched \/ last.opcode \in {"Hlt", "Igl"})
           /\ ~last.fetched => Vm = prev
           /\ (last.fetched /\ last.opcode \notin {"Hlt", "Igl"}) => status = "continue"

\* the last step executed the jump op to its end, on a register that holds a
\* value a program counter can take
LastJump(op) ==
    /\ last.fetched
    /\ last.opcode = op
    /\ status = "continue"
    /\ prev.registers[LastByte(1)] >= 0
    /\ prev.registers[LastByte(1)] <= (PcHuge - last.end) \div 4

\* C12: jump targets are raw byte offsets: JMP leaves pc = value(reg), JMPF
\* leaves pc = (pc after the JMPF's bytes) + value(reg), JMPB leaves
\* pc = (pc after the JMPB's bytes) - value(reg), with no multiplication by
\* an instruction width, and no register, flag, remainder or heap byte
\* changes.
C12_JumpTargetsAreByteOffsets ==
    LET v == prev.registers[LastByte(1)]
    IN  /\ LastJump("Jmp") => pc = v
        /\ LastJump("Jmpf") => pc = last.end + v
        /\ (LastJump("Jmpb") /\ v <= last.end) => pc = last.end - v
        /\ (LastJump("Jmp") \/ LastJump("Jmpf") \/ LastJump("Jmpb"))
              => registers = prev.registers /\ LastKeptHeapRemCmp

\* C13: in a program of 4-byte instructions a jump whose register holds
\* n >= 0 moves pc by whole instructions: JMP leaves pc = 4n, JMPF leaves
\* pc = (address of the next instruction) + 4n, JMPB leaves
\* pc = (address of the next instruction) - 4n when that is no address
\* before 0; so JMPB with n = 1 is at pc again and JMPF with n = 1 skips one
\* instruction.
C13_JumpsMoveByInstructions ==
    LET n == prev.registers[LastByte(1)]
        following == prev.pc + 4
    IN  /\ LastJump("Jmp") => pc = 4 * n
        /\ LastJump("Jmpf") => /\ pc = following + 4 * n
                               /\ n = 1 => pc = prev.pc + 8
        /\ (LastJump("Jmpb") /\ 4 * n <= following)
              => /\ pc = following - 4 * n
                 /\ n = 1 => /\ pc = prev.pc
                             /\ OpcodeFromU8(ByteAt(Vm, pc)) = "Jmpb"
        /\ (LastJump("Jmp") \/ LastJump("Jmpf") \/ LastJump("Jmpb"))
              => last.end = following

C13_Witness ==
    /\ LastJump("Jmpb")
    /\ prev.registers[LastByte(1)] = 1
    /\ prev.pc = 4
    /\ pc = 4
    /\ executed >= 3

CompareOpcodes == {"Eq", "Neq", "Gt", "Lt", "Gtq", "Ltq"}

\* the last step decoded a comparison whose two register operands lie in the
\* buffer and name registers of the register file
LastComparison ==
    /\ last.fetched
    /\ last.opcode \in CompareOpcodes
    /\ LastAvailable >= 3
    /\ LastByte(1) < REGISTER_COUNT
    /\ LastByte(2) < REGISTER_COUNT

\* C14: EQ, NEQ, GT, LT, GTQ, LTQ reg_a,reg_b set cmp to 1 when the signed
\* relation =, #, >, <, >=, <= holds between registers[reg_a] and
\* registers[reg_b] and to 0 otherwise, and change no register, no heap byte
\* and not rem.
C14_CompareSetsFlagOnly ==
    LastComparison
        => LET a == prev.registers[LastByte(1)]
               b == prev.registers[LastByte(2)]
           IN  /\ cmp \in {0, 1}
               /\ last.opcode = "Eq" => (cmp = 1 <=> a = b)
               /\ last.opcode = "Neq" => (cmp = 1 <=> a # b)
               /\ last.opcode = "Gt" => (cmp = 1 <=> a > b)
               /\ last.opcode = "Lt" => (cmp = 1 <=> a < b)
               /\ last.opcode = "Gtq" => (cmp = 1 <=> a >= b)
               /\ last.opcode = "Ltq" => (cmp = 1 <=> a <= b)
               /\ registers = prev.registers
               /\ heap = prev.heap
               /\ rem = prev.rem

C14_Witness ==
    /\ LastComparison
    /\ last.opcode = "Gt"
    /\ prev.registers[LastByte(1)] < 0
    /\ prev.registers[LastByte(2)] > 0
    /\ prev.cmp = 0
    /\ cmp = 0
    /\ status = "continue"

\* C15: cmp is 0 or 1 in every state; cmp changes only on a step that
\* executes a comparison opcode, and rem changes only on a step that
\* executes DIV.
C15_FlagAndRemainderPersist ==
    /\ cmp \in {0, 1}
    /\ cmp # prev.cmp => (last.fetched /\ last.opcode \in CompareOpcodes)
    /\ rem # prev.rem => (last.fetched /\ last.opcode = "Div")
    /\ ran.valid => ran.vm.cmp \in {0, 1}

C15_Witness ==
    /\ program = FlagsThenOthers
    /\ last.fetched
    /\ last.opcode = "Jmpf"
    /\ status = "continue"
    /\ prev.cmp = 1
    /\ cmp = 1
    /\ rem = <<0, 1>>
    /\ prev.rem = rem

\* the last step executed JEQ to its end, on a register that holds a value a
\* program counter can take
LastJeq == LastJump("Jeq")

\* C16: JEQ reg with cmp = 1 leaves pc at the target the register gives
\* (instruction 4 * value), so that the instructions between the JEQ and the
\* target are not executed and the registers they would write keep their
\* values; with cmp = 0 pc is at the instruction after the JEQ; JEQ changes
\* no register, heap byte, rem or cmp.
C16_JeqSkipsToTarget ==
    /\ LastJeq
          => /\ prev.cmp = 1 => pc = 4 * prev.registers[LastByte(1)]
             /\ prev.cmp = 0 => pc = prev.pc + 4
             /\ registers = prev.registers
             /\ LastKeptHeapRemCmp
    /\ (program = JeqTaken /\ ran.valid)
          => /\ ran.ret = "true"
             /\ ran.fetched = 5
             /\ ran.vm.registers[0] = 5
             /\ ran.vm.registers[1] = 0
             /\ ran.vm.cmp = 1
    /\ (program = JeqNotTaken /\ ran.valid)
          => /\ ran.ret = "true"
             /\ ran.fetched = 6
             /\ ran.vm.registers[0] = 0
             /\ ran.vm.registers[1] = 0
             /\ ran.vm.cmp = 0

C16_Witness ==
    /\ program = JeqTaken
    /\ ran.valid
    /\ executed = 5
    /\ registers[0] = 5
    /\ registers[1] = 0
    /\ last.opcode = "Load"
    /\ prev.pc = 20

\* C17: JNEQ is an executable opcode with a byte encoding of its own (a byte
\* decodes to it, and the byte between JEQ's 15 and ALLOC's 17 does not
\* decode as ILLEGAL): on cmp = 0 it sets pc to the target the register
\* gives, on cmp = 1 it falls through.
C17_JneqIsExecutable ==
    /\ \E b \in Bytes : OpcodeFromU8(b) = "Jneq"
    /\ (last.fetched /\ LastByte(0) = 16 /\ LastAvailable >= 4
            /\ LastByte(1) < REGISTER_COUNT)
          => /\ last.opcode # "Igl"
             /\ status = "continue"
             /\ prev.cmp = 1 => pc = prev.pc + 4

\* the last step decoded an ALLOC whose register operand lies in the buffer
\* and names a register of the register file
LastAlloc ==
    /\ last.fetched
    /\ last.opcode = "Alloc"
    /\ LastAvailable >= 2
    /\ LastByte(1) < REGISTER_COUNT

\* C18: ALLOC reg with registers[reg] = n >= 0 makes the heap n bytes
\* longer, keeps the bytes it held, fills the n new bytes with 0 and changes
\* no register, cmp or rem.
C18_AllocGrowsZeroFilled ==
    (LastAlloc /\ prev.registers[LastByte(1)] >= 0)
        => LET n == prev.registers[LastByte(1)]
               old == Len(prev.heap)
           IN  /\ Len(heap) = old + n
               /\ \A i \in 1..old : heap[i] = prev.heap[i]
               /\ \A i \in (old + 1)..(old + n) : heap[i] = 0
               /\ registers = prev.registers
               /\ cmp = prev.cmp
               /\ rem = prev.rem

C18_Witness ==
    /\ LastAlloc
    /\ prev.registers[LastByte(1)] = 3
    /\ Len(prev.heap) = 3
    /\ Len(heap) = 6
    /\ status = "continue"

\* C19: ALLOC reg with a negative registers[reg] ends in a reported
\* HeapGrowthOverflow fault (not a process abort), with the heap as it was.
C19_NegativeAllocIsReportedFault ==
    (LastAlloc /\ prev.registers[LastByte(1)] < 0)
        => status # "panic" /\ heap = prev.heap

\* C20: the heap is append-only: no step makes it shorter or changes a byte
\* it holds, and only a step that executes ALLOC changes it.
C20_HeapAppendOnly ==
    /\ Len(heap) >= Len(prev.heap)
    /\ \A i \in 1..Len(prev.heap) : heap[i] = prev.heap[i]
    /\ heap # prev.heap => (last.fetched /\ last.opcode = "Alloc")

\* the last step decoded INC or DEC whole in the buffer, on a register of the
\* register file
LastIncDec ==
    /\ last.fetched
    /\ last.opcode \in {"Inc", "Dec"}
    /\ LastAvailable >= 4
    /\ LastByte(1) < REGISTER_COUNT

\* C21: INC reg (DEC reg) replaces registers[reg] with its value plus 1
\* (minus 1) modulo 2^32: INC of 2^31-1 gives -2^31, DEC of -2^31 gives
\* 2^31-1, without fault, and nothing else changes.
C21_IncDecWrap ==
    LastIncDec
        => LET r == LastByte(1)
               old == prev.registers[r]
               new == IF last.opcode = "Inc"
                      THEN (IF old = I32_MAX THEN I32_MIN ELSE old + 1)
                      ELSE (IF old = I32_MIN THEN I32_MAX ELSE old - 1)
           IN  /\ status = "continue"
               /\ registers = [prev.registers EXCEPT ![r] = new]
               /\ LastKeptHeapRemCmp

\* the last step decoded a jump (a JEQ with cmp = 1) whole in the buffer, on a
\* register of the register file
LastJumpTaken ==
    /\ last.fetched
    /\ last.opcode \in {"Jmp", "Jmpf", "Jmpb", "Jeq"}
    /\ LastAvailable >= 4
    /\ LastByte(1) < REGISTER_COUNT
    /\ last.opcode = "Jeq" => prev.cmp = 1

\* C28: after a jump whose register is negative, or whose target is before
\* offset 0 or at or after the end of the buffer, the following step halts
\* because pc >= len(program) (or reports a fault) and changes no register,
\* heap byte, rem or cmp; no step indexes the program at an invalid pc.
C28_BadJumpTargetHalts ==
    (LastJumpTaken
        /\ (prev.registers[LastByte(1)] < 0 \/ status = "panic"
            \/ pc >= Len(program)))
        => /\ status = "continue"
           /\ pc >= Len(program)
           /\ execute_instruction(Vm, overflow_checks) = Returns(Vm, TRUE)

JumpOpcodes == {"Jmp", "Jmpf", "Jmpb", "Jeq"}

\* the last step executed an instruction that neither jumps nor halts, to
\* its end
LastStraight ==
    /\ last.fetched
    /\ last.opcode \notin JumpOpcodes \cup {"Hlt", "Igl"}
    /\ status = "continue"

\* the next instruction is an ALLOC of more than MaxHeap bytes, which the
\* model does not step
AllocBeyondMaxHeap == execute_instruction(Vm, overflow_checks).ret = "bound"

\* C26: every step that executes a non-jump, non-halting instruction
\* strictly increases pc; so repeated stepping of a program reaches Halted
\* unless a jump executes or a fault occurs.
C26_StraightLineTerminates ==
    /\ [](LastStraight => pc > prev.pc)
    /\ <>(\/ status = "halted"
          \/ status = "panic"
          \/ (last.fetched /\ last.opcode \in JumpOpcodes)
          \/ AllocBeyondMaxHeap)

C26_Witness ==
    /\ program = AllocTwice
    /\ status = "halted"
    /\ ~last.fetched
    /\ executed = 3
    /\ pc = Len(program)
    /\ Len(heap) = 6

\* C22: add_byte puts exactly the byte given at the end of the program
\* buffer and leaves the earlier bytes, pc, registers, heap, rem and cmp as
\* they were; no sequence of appends and steps makes the buffer shorter: it
\* holds the bytes appended, in order.
C22_AddByteAppendsOnly ==
    /\ program = typed
    /\ Len(program) >= Len(prev.program)
    /\ last.opcode = "add_byte"
          => /\ program = Append(prev.program, typed[Len(typed)])
             /\ [Vm EXCEPT !.program = prev.program] = prev

C22_Witness ==
    /\ last.opcode = "add_byte"
    /\ program = <<1, 0, 0, 1, 18>>
    /\ pc = 4
    /\ registers[0] = 1
    /\ status = "continue"

\* C27: when every round appends the bytes of one complete instruction (HLT
\* and bytes with no opcode included, no jumps) and then steps once, pc is
\* the program length at the start of each round, so each step executes the
\* instruction of its own round.
C27_RoundsStayAligned ==
    /\ status # "panic"
    /\ pc = Len(program)
    /\ last.fetched => OpcodeFromU8(typed[prev.pc + 1]) = last.opcode

\* C23: for every opcode of the instruction set but ILLEGAL, the line made
\* of its mnemonic and single-space-separated operands of its OperandSpec
\* assembles into one instruction that carries that opcode; a mnemonic that
\* is a prefix of another is not taken for the longer one.
C23_MnemonicsAssemble ==
    \A op \in Opcodes \ {"Igl"} :
        (parsed.done /\ text = TextOf(<<<<op, CanonicalToks(op)>>>>, TRUE))
            => /\ parsed.ok
               /\ parsed.instructions = <<Instr(op, CanonicalToks(op))>>

\* C24: a text whose last line has no line terminator yields a fault and no
\* Program; the unterminated line is not dropped with the lines before it
\* assembled.
C24_UnterminatedLineIsFault ==
    (parsed.done /\ text # <<>> /\ text[Len(text)] # "\n") => ~parsed.ok

\* C25: a line whose operands differ from the opcode's OperandSpec in count
\* or kind yields a fault and no Program.
C25_OperandMismatchIsFault ==
    \A line \in Lines :
        (Mismatched(line) /\ parsed.done /\ text = TextOf(<<line>>, TRUE))
            => ~parsed.ok

====
